---- MODULE Spec2Model ----
(***************************************************************************)
(* A model of the OCFL inventory validator (ocfl/inventory_validator.py)   *)
(* and its validation logger (ocfl/validation_logger.py).                  *)
(*                                                                         *)
(* Python strings are TLA+ strings (characters are read with SubSeq).      *)
(* A JSON value as returned by json.load() is a tagged record:             *)
(*   Str(s), Num(n), List(<<v1, ...>>), Dict(<< <<k1, v1>>, ... >>), None. *)
(* A dict keeps its insertion order, so it is a sequence of key/value      *)
(* pairs with distinct keys.  A raised Python exception is the field exc   *)
(* of the value an operation returns ("none" when it returns normally).    *)
(***************************************************************************)
EXTENDS Integers, Sequences, FiniteSets, TLC

VARIABLES
    log,        \* the ValidationLogger shared by the validators
    vals,       \* validator name -> InventoryValidator object
    exc,        \* exception raised by the last operation, "none" if it returned
    op,         \* name of the last operation performed ("init" at the start)
    arg,        \* input of the standalone operations (see each specification)
    ret         \* value returned by the last operation (None if none)

vars == <<log, vals, exc, op, arg, ret>>

---------------------------------------------------------------------------
(* Python values *)

Str(s) == [t |-> "str", s |-> s]
Num(n) == [t |-> "int", n |-> n]
List(l) == [t |-> "list", l |-> l]
Dict(d) == [t |-> "dict", d |-> d]
None == [t |-> "none"]

\* k in d, d[k] and list(d.keys()) for a dict d
Has(node, k) == \E i \in 1..Len(node.d) : node.d[i][1] = k
Get(node, k) == node.d[CHOOSE i \in 1..Len(node.d) : node.d[i][1] = k][2]
Keys(node) == [i \in 1..Len(node.d) |-> node.d[i][1]]
KeySet(node) == {node.d[i][1] : i \in 1..Len(node.d)}

\* d[k] = v on a dict: replaces the value in place or appends the new key
DictSet(node, k, v) ==
    IF Has(node, k)
    THEN Dict([i \in 1..Len(node.d) |->
                  IF node.d[i][1] = k THEN <<k, v>> ELSE node.d[i]])
    ELSE Dict(Append(node.d, <<k, v>>))

Range(seq) == {seq[i] : i \in 1..Len(seq)}

Char(s, i) == SubSeq(s, i, i)

Digits == {"0", "1", "2", "3", "4", "5", "6", "7", "8", "9"}
Lower == {"a", "b", "c", "d", "e", "f", "g", "h", "i", "j", "k", "l", "m",
          "n", "o", "p", "q", "r", "s", "t", "u", "v", "w", "x", "y", "z"}
Upper == {"A", "B", "C", "D", "E", "F", "G", "H", "I", "J", "K", "L", "M",
          "N", "O", "P", "Q", "R", "S", "T", "U", "V", "W", "X", "Y", "Z"}
\* the regex class \w
WordChars == Digits \cup Lower \cup Upper \cup {"_"}

\* the printable ASCII characters in code-point order: 32 (space) to 95 (_),
\* and 97 (a) to 126 (~)
AsciiLow == " !\"#$%&'()*+,-./0123456789:;<=>?@ABCDEFGHIJKLMNOPQRSTUVWXYZ[\\]^_"
AsciiHigh == "abcdefghijklmnopqrstuvwxyz{|}~"

\* ord(c)
Ord(c) ==
    IF c = "\n" THEN 10
    ELSE IF \E i \in 1..Len(AsciiLow) : Char(AsciiLow, i) = c
    THEN 31 + (CHOOSE i \in 1..Len(AsciiLow) : Char(AsciiLow, i) = c)
    ELSE 96 + (CHOOSE i \in 1..Len(AsciiHigh) : Char(AsciiHigh, i) = c)

\* a < b on Python strings (code-point lexicographic order)
StrLess(a, b) ==
    LET n == IF Len(a) < Len(b) THEN Len(a) ELSE Len(b)
        differ == {i \in 1..n : Char(a, i) # Char(b, i)}
        first == CHOOSE i \in differ : \A j \in differ : i <= j
    IN  IF differ = {} THEN Len(a) < Len(b)
        ELSE Ord(Char(a, first)) < Ord(Char(b, first))

\* str(n) for an int n >= 0
RECURSIVE IntToStr(_)
IntToStr(n) ==
    IF n < 10 THEN Char("0123456789", n + 1)
    ELSE IntToStr(n \div 10) \o Char("0123456789", (n % 10) + 1)

\* int(s) for a string of decimal digits
RECURSIVE StrToInt(_)
StrToInt(s) ==
    IF s = "" THEN 0
    ELSE 10 * StrToInt(SubSeq(s, 1, Len(s) - 1))
         + ((CHOOSE i \in 1..10 : Char("0123456789", i) = Char(s, Len(s))) - 1)

\* sep.join(strs)
RECURSIVE Join(_, _)
Join(sep, strs) ==
    IF strs = <<>> THEN ""
    ELSE IF Len(strs) = 1 THEN strs[1]
    ELSE strs[1] \o sep \o Join(sep, Tail(strs))

\* the body of repr(s) for a str: a newline is written as backslash-n
RECURSIVE Escaped(_)
Escaped(s) ==
    IF Len(s) = 0 THEN ""
    ELSE IF Len(s) = 1 THEN (IF s = "\n" THEN "\\n" ELSE s)
    ELSE Escaped(SubSeq(s, 1, Len(s) \div 2))
         \o Escaped(SubSeq(s, (Len(s) \div 2) + 1, Len(s)))

\* repr(v)
RECURSIVE PyRepr(_)
PyRepr(v) ==
    CASE v.t = "str" -> "'" \o Escaped(v.s) \o "'"
      [] v.t = "int" -> IntToStr(v.n)
      [] v.t = "none" -> "None"
      [] v.t = "list" -> "[" \o Join(", ", [i \in 1..Len(v.l) |-> PyRepr(v.l[i])]) \o "]"
      [] v.t = "dict" ->
           "{" \o Join(", ", [i \in 1..Len(v.d) |->
                   "'" \o Escaped(v.d[i][1]) \o "': " \o PyRepr(v.d[i][2])]) \o "}"

\* str(v)
PyStr(v) == IF v.t = "str" THEN v.s ELSE PyRepr(v)

\* Keyword arguments (**args) are a dict name -> value in call order.
Kw(pairs) == Dict(pairs)

---------------------------------------------------------------------------
(* ValidationLogger *)

\* self.spec
LoggerSpecUrl == "https://ocfl.io/draft/spec/"

\* data/validation-errors.json: code -> {description: {lang: template},
\* params: [names]}.  The file is not among the sources; these entries have
\* the documented shape and exercise every branch of error_or_warning.
validation_codes ==
    Dict(<<
      <<"E100", Dict(<< <<"description", Dict(<< <<"en", Str("no id") >> >>) >> >>) >>,
      <<"E106", Dict(<< <<"description", Dict(<< <<"en", Str("no head") >>,
                                                  <<"fr", Str("sans head") >> >>) >>,
                        <<"params", List(<<>>) >> >>) >>,
      <<"E914", Dict(<< <<"description", Dict(<< <<"en", Str("head %s not %s") >> >>) >>,
                        <<"params", List(<< Str("got"), Str("expected") >>) >> >>) >>,
      <<"E302", Dict(<< <<"description", Dict(<< <<"en", Str("unused: %s") >> >>) >>,
                        <<"params", List(<< Str("description") >>) >> >>) >>,
      <<"E312", Dict(<< <<"description", Dict(<< <<"en", Str("bad sequence %s") >> >>) >>,
                        <<"params", List(<<>>) >> >>) >>,
      <<"W203", Dict(<< <<"description", Dict(<< <<"it", Str("zeri") >>,
                                                  <<"de", Str("Nullen") >> >>) >> >>) >>,
      <<"W212", Dict(<< <<"description", Dict(<<>>) >>,
                        <<"params", List(<< Str("version_dir") >>) >> >>) >>,
      <<"W201", Dict(<< <<"params", List(<<>>) >> >>) >>
    >>)

\* ValidationLogger.__init__
LoggerInit(warnings, lang) ==
    [warnings |-> warnings, lang |-> lang, codes |-> Dict(<<>>),
     messages |-> <<>>, num_errors |-> 0, num_warnings |-> 0,
     calls |-> <<>>]     \* history: every error/warn call made, in order

\* template % tuple(params) for a template whose conversions are all %s:
\* [ok |-> FALSE] stands for the TypeError of a wrong number of arguments
RECURSIVE PercentFormat(_, _)
PercentFormat(template, params) ==
    LET places == {i \in 1..(Len(template) - 1) : SubSeq(template, i, i + 1) = "%s"}
        first == CHOOSE i \in places : \A j \in places : i <= j
    IN  IF places = {}
        THEN [ok |-> params = <<>>, s |-> template]
        ELSE IF params = <<>> THEN [ok |-> FALSE, s |-> ""]
        ELSE LET rest == PercentFormat(SubSeq(template, first + 2, Len(template)),
                                       Tail(params))
             IN  [ok |-> rest.ok,
                  s |-> SubSeq(template, 1, first - 1) \o params[1] \o rest.s]

\* sorted(keys)[0]
FirstAlphabetically(keys) ==
    CHOOSE k \in Range(keys) : \A j \in Range(keys) : j = k \/ StrLess(k, j)

\* re.match(r'([EW](\d\d\d))', code)
CodeMatch(code) ==
    /\ Len(code) >= 4
    /\ Char(code, 1) \in {"E", "W"}
    /\ \A i \in 2..4 : Char(code, i) \in Digits

LinkThreshold == 200

\* the text error_or_warning renders for one call
Message(lg, code, severity, args) ==
    LET known == Has(validation_codes, code)
                 /\ Has(Get(validation_codes, code), "description")
        entry == Get(validation_codes, code)
        desc == Get(entry, "description")
        lang_desc0 ==
            IF Has(desc, lg.lang) THEN Get(desc, lg.lang).s
            ELSE IF Has(desc, "en") THEN Get(desc, "en").s
            ELSE IF Len(desc.d) > 0 THEN Get(desc, FirstAlphabetically(Keys(desc))).s
            ELSE "Unknown " \o severity \o ": %s - no description, params (%s)"
        names == Get(entry, "params").l
        params == [i \in 1..Len(names) |->
                      IF Has(args, names[i].s) THEN PyStr(Get(args, names[i].s))
                      ELSE "???"]
        formatted == PercentFormat(lang_desc0, params)
        lang_desc ==
            IF Has(entry, "params")
            THEN IF formatted.ok THEN formatted.s ELSE lang_desc0 \o PyRepr(args)
            ELSE lang_desc0
        message0 ==
            IF known THEN "[" \o code \o "] " \o lang_desc
            ELSE "Unknown " \o severity \o ": " \o code \o " - params ("
                 \o PyRepr(args) \o ")"
    IN  IF CodeMatch(code) /\ StrToInt(SubSeq(code, 2, 4)) < LinkThreshold
        THEN message0 \o " (see " \o LoggerSpecUrl \o "#" \o SubSeq(code, 1, 4) \o ")"
        ELSE message0

\* ValidationLogger.error_or_warning
error_or_warning(lg, code, severity, args) ==
    LET message == Message(lg, code, severity, args)
    IN  [lg EXCEPT
           !.codes = DictSet(lg.codes, code, message),
           !.messages = IF severity = "error" \/ lg.warnings
                        THEN Append(lg.messages, message) ELSE lg.messages,
           !.calls = Append(lg.calls, [severity |-> severity, code |-> code,
                                       args |-> args, message |-> message])]

\* ValidationLogger.error
error(lg, code, args) ==
    LET l == error_or_warning(lg, code, "error", args)
    IN  [l EXCEPT !.num_errors = l.num_errors + 1]

\* warn, were warnings counted only when they are part of the report
warn_counted_if_reported(lg, code, args) ==
    LET l == error_or_warning(lg, code, "warning", args)
    IN  IF lg.warnings THEN [l EXCEPT !.num_warnings = l.num_warnings + 1] ELSE l

\* ValidationLogger.warn
warn(lg, code, args) ==
    LET l == error_or_warning(lg, code, "warning", args)
    IN  [l EXCEPT !.num_warnings = l.num_warnings + 1]

\* sorted(strs): insertion sort, stable
RECURSIVE Insert(_, _)
Insert(sorted, s) ==
    IF sorted = <<>> THEN <<s>>
    ELSE IF StrLess(s, Head(sorted)) THEN <<s>> \o sorted
    ELSE <<Head(sorted)>> \o Insert(Tail(sorted), s)

RECURSIVE Sorted(_)
Sorted(strs) ==
    IF strs = <<>> THEN <<>>
    ELSE Insert(Sorted(SubSeq(strs, 1, Len(strs) - 1)), strs[Len(strs)])

\* the report, were it written in call order
ReportLinesInCallOrder(lg) == lg.messages

\* the lines of ValidationLogger.__str__, each followed by a newline there
ReportLines(lg) == Sorted(lg.messages)

\* ValidationLogger.__str__
LoggerStr(lg) == Join("", [i \in 1..Len(ReportLines(lg)) |-> ReportLines(lg)[i] \o "\n"])

---------------------------------------------------------------------------
(* InventoryValidator *)

\* InventoryValidator.__init__; the logger is the shared variable log
NewValidator(where, lax_digests) ==
    [where |-> where,
     inventory |-> None,
     digest_algorithm |-> Str("sha512"),
     content_directory |-> "content",
     head |-> None,
     all_versions |-> <<>>,
     manifest_files |-> None,
     lax_digests |-> lax_digests]

\* A method runs in a context c = [self, calls, exc]: the validator object,
\* the calls it has made on self.log so far, in order, and the exception
\* raised so far ("none" while running).  The validator never reads the
\* logger, so the action that models a method applies the calls to the
\* shared logger, in order, with LogAll.
\* digests_used is the local variable of validate (read only once bound).
Ctx(self) == [self |-> self, calls |-> <<>>, exc |-> "none", digests_used |-> <<>>]
Raise(c, e) == [c EXCEPT !.exc = e]

\* InventoryValidator.error: args is the sequence of keyword arguments
iv_error(c, code, args) ==
    [c EXCEPT !.calls = Append(@, [severity |-> "error", code |-> code,
                 args |-> Kw(<< <<"where", Str(c.self.where)>> >> \o args)])]

\* InventoryValidator.warn
iv_warn(c, code, args) ==
    [c EXCEPT !.calls = Append(@, [severity |-> "warning", code |-> code,
                 args |-> Kw(<< <<"where", Str(c.self.where)>> >> \o args)])]

\* self.log.error(...) / self.log.warn(...) for each call made, in order
RECURSIVE LogAll(_, _)
LogAll(lg, calls) ==
    IF calls = <<>> THEN lg
    ELSE LogAll(IF Head(calls).severity = "error"
                THEN error(lg, Head(calls).code, Head(calls).args)
                ELSE warn(lg, Head(calls).code, Head(calls).args),
                Tail(calls))

\* '0' * k
RECURSIVE Zeros(_)
Zeros(k) == IF k <= 0 THEN "" ELSE "0" \o Zeros(k - 1)

\* fmt % n, for fmt = 'v%d' (zero_padded = 0) or 'v%0<zero_padded>d'
VersionName(zero_padded, n) ==
    "v" \o Zeros(zero_padded - Len(IntToStr(n))) \o IntToStr(n)

\* the excessive limit on version numbers of the unpadded scheme
MaxVersionNum == 999999
\* the padding sizes probed: range(2, 11)
MinPadding == 2
MaxPadding == 10

\* max_version_num once the padding size is known
max_version_num_wide(zero_padded) ==
    IF zero_padded = 0 THEN MaxVersionNum ELSE (10 ^ zero_padded) - 1

max_version_num(zero_padded) ==
    IF zero_padded = 0 THEN MaxVersionNum ELSE (10 ^ (zero_padded - 1)) - 1

\* the loop "for n in range(2, max_version_num + 1)": the versions appended
\* from n on, and whether the loop stopped at a missing version
RECURSIVE SequenceFrom(_, _, _, _)
SequenceFrom(versions, zero_padded, n, acc) ==
    IF n > max_version_num(zero_padded)
    THEN [all_versions |-> acc, missing |-> FALSE, n |-> n]
    ELSE IF Has(versions, VersionName(zero_padded, n))
    THEN SequenceFrom(versions, zero_padded, n + 1,
                      Append(acc, VersionName(zero_padded, n)))
    ELSE [all_versions |-> acc, missing |-> TRUE, n |-> n]

\* InventoryValidator.validate_version_sequence: the context after the call
\* and the list returned
validate_version_sequence(c, versions) ==
    IF versions.t # "dict"
    THEN [c |-> iv_error(c, "E310", <<>>), ret |-> <<>>]
    ELSE
    LET paddings == {n \in MinPadding..MaxPadding : Has(versions, VersionName(n, 1))}
        zero_padded ==
            IF Has(versions, "v1") THEN 0
            ELSE IF paddings = {} THEN -1
            ELSE CHOOSE n \in paddings : \A m \in paddings : n <= m
    IN  IF zero_padded = -1
        THEN [c |-> iv_error(c, "E311", <<>>), ret |-> <<>>]
        ELSE
        LET c1 == IF zero_padded > 0 THEN iv_warn(c, "W203", <<>>) ELSE c
            walk == SequenceFrom(versions, zero_padded, 2,
                                 <<VersionName(zero_padded, 1)>>)
        IN  IF walk.missing
            THEN [c |-> IF Len(versions.d) # walk.n - 1
                        THEN iv_error(c1, "E312", <<>>) ELSE c1,
                  ret |-> walk.all_versions]
            ELSE [c |-> IF Len(versions.d) > max_version_num(zero_padded)
                        THEN iv_error(c1, "E312", <<>>) ELSE c1,
                  ret |-> walk.all_versions]

\* key in x for a Python value x: "T", "F", or "TypeError" where x is not
\* a container (an int, None)
PyIn(key, x) ==
    CASE x.t = "dict" -> IF Has(x, key) THEN "T" ELSE "F"
      [] x.t = "list" -> IF \E i \in 1..Len(x.l) : x.l[i] = Str(key) THEN "T" ELSE "F"
      [] x.t = "str" ->
           IF \E i \in 1..(Len(x.s) - Len(key) + 1) :
                  SubSeq(x.s, i, i + Len(key) - 1) = key
           THEN "T" ELSE "F"
      [] OTHER -> "TypeError"

\* whether "for item in x" works (else TypeError: not iterable)
Iterable(x) == x.t \in {"dict", "list", "str"}

\* whether x can be a dict key (else TypeError: unhashable)
Hashable(x) == x.t \in {"str", "int", "none"}

\* ch in s, for a one-character string ch
Contains(s, ch) == \E i \in 1..Len(s) : Char(s, i) = ch

\* re.match(r'(\w+):.+', s)
IdMatch(s) ==
    \E k \in 1..Len(s) :
        /\ \A i \in 1..k : Char(s, i) \in WordChars
        /\ Len(s) >= k + 2
        /\ Char(s, k + 1) = ":"
        /\ Char(s, k + 2) # "\n"

\* the position where '$' matches: the end, or just before a final newline
AtDollar(s, pos) ==
    \/ pos = Len(s)
    \/ pos = Len(s) - 1 /\ Char(s, Len(s)) = "\n"

DigestLength512 == 128
DigestLength256 == 64
InventoryType == "https://ocfl.io/1.0/spec/#inventory"

\* the characters of the class [0-9a-z] of digest_regex
digest_chars == Digits \cup Lower

\* InventoryValidator.digest_regex: the regex returned, or "raise"
digest_regex(self) ==
    IF self.digest_algorithm = Str("sha512")
    THEN [kind |-> "fixed", length |-> DigestLength512]
    ELSE IF self.digest_algorithm = Str("sha256")
    THEN [kind |-> "fixed", length |-> DigestLength256]
    ELSE IF self.lax_digests THEN [kind |-> "any"]
    ELSE [kind |-> "raise"]

\* re.match(regex, s) for the regexes of digest_regex:
\* ^[0-9a-z]{length}$ and .*$
ReMatch(regex, s) ==
    IF regex.kind = "fixed"
    THEN /\ Len(s) >= regex.length
         /\ \A i \in 1..regex.length : Char(s, i) \in digest_chars
         /\ AtDollar(s, regex.length)
    ELSE \E pos \in 0..Len(s) :
             /\ \A i \in 1..pos : Char(s, i) # "\n"
             /\ AtDollar(s, pos)

\* InventoryValidator.is_valid_content_path, for a content_directory
\* without regex metacharacters: ^v\d+/<content_directory>/
is_valid_content_path(self, path) ==
    \E k \in 1..Len(path) :
        LET tail == "/" \o self.content_directory \o "/"
        IN  /\ Len(path) >= k + 1 + Len(tail)
            /\ Char(path, 1) = "v"
            /\ \A i \in 2..(k + 1) : Char(path, i) \in Digits
            /\ SubSeq(path, k + 2, k + 1 + Len(tail)) = tail

\* the loop over manifest[digest] in validate_manifest: st = [c, mf]
RECURSIVE ManifestFiles(_, _, _)
ManifestFiles(st, digest, files) ==
    IF files = <<>> \/ st.c.exc # "none" THEN st
    ELSE LET file == Head(files)
         IN  IF ~Hashable(file)
             THEN [st EXCEPT !.c = Raise(st.c, "TypeError")]
             ELSE IF file.t # "str"
             THEN [c |-> Raise(st.c, "TypeError"),
                   mf |-> DictSet(st.mf, file, digest)]
             ELSE ManifestFiles(
                    [c |-> IF is_valid_content_path(st.c.self, file.s) THEN st.c
                           ELSE iv_error(st.c, "E913", << <<"path", file>> >>),
                     mf |-> DictSet(st.mf, file, digest)],
                    digest, Tail(files))

\* the loop over the digests of the manifest in validate_manifest
RECURSIVE ManifestDigests(_, _, _)
ManifestDigests(st, manifest, i) ==
    IF i > Len(manifest.d) \/ st.c.exc # "none" THEN st
    ELSE LET digest == manifest.d[i][1]
             value == manifest.d[i][2]
             regex == digest_regex(st.c.self)
         IN  IF regex.kind = "raise"
             THEN [st EXCEPT !.c = Raise(st.c, "Exception")]
             ELSE ManifestDigests(
                    IF ~ReMatch(regex, digest)
                    THEN [st EXCEPT !.c = iv_error(st.c, "E304", << <<"digest", Str(digest)>> >>)]
                    ELSE IF value.t # "list"
                    THEN [st EXCEPT !.c = iv_error(st.c, "E308", << <<"digest", Str(digest)>> >>)]
                    ELSE ManifestFiles(st, digest, value.l),
                    manifest, i + 1)

\* InventoryValidator.validate_manifest: the context after the call and
\* manifest_files, the dict returned (file -> digest)
validate_manifest(c, manifest) ==
    IF manifest.t # "dict"
    THEN [c |-> iv_error(c, "E307", <<>>), mf |-> Dict(<<>>)]
    ELSE ManifestDigests([c |-> c, mf |-> Dict(<<>>)], manifest, 1)

\* the loop over the digests of a state block: st = [c, digests]
RECURSIVE StateDigests(_, _, _)
StateDigests(st, state, i) ==
    IF i > Len(state.d) \/ st.c.exc # "none" THEN st
    ELSE LET digest == state.d[i][1]
             regex == digest_regex(st.c.self)
         IN  IF regex.kind = "raise"
             THEN [st EXCEPT !.c = Raise(st.c, "Exception")]
             ELSE IF ~ReMatch(regex, digest)
             THEN StateDigests(
                    [st EXCEPT !.c = iv_error(st.c, "E305", << <<"digest", Str(digest)>> >>)],
                    state, i + 1)
             ELSE IF ~Iterable(state.d[i][2])
             THEN [st EXCEPT !.c = Raise(st.c, "TypeError")]
             ELSE StateDigests([st EXCEPT !.digests = Append(@, digest)], state, i + 1)

\* InventoryValidator.validate_state_block: the context after the call and
\* the list of digests returned
validate_state_block(c, state) ==
    IF state.t # "dict"
    THEN [c |-> iv_error(c, "E912", <<>>), digests |-> <<>>]
    ELSE IF digest_regex(c.self).kind = "raise"
    THEN [c |-> Raise(c, "Exception"), digests |-> <<>>]
    ELSE StateDigests([c |-> c, digests |-> <<>>], state, 1)

\* whether the characters of s from position i on start with the shape:
\* "d" in the shape stands for a digit, any other character for itself
RECURSIVE ShapeAt(_, _, _)
ShapeAt(s, i, shape) ==
    IF shape = "" THEN TRUE
    ELSE /\ i >= 1 /\ i <= Len(s)
         /\ IF Head(shape) = "d" THEN Char(s, i) \in Digits
            ELSE Char(s, i) = Head(shape)
         /\ ShapeAt(s, i + 1, Tail(shape))

\* w3c_datetime.str_to_datetime(created) returns (else it raises
\* ValueError): a date, or a date and time of day with an optional zone.
\* The module is not among the sources; this is the W3C datetime shape
\* limited to YYYY-MM-DD, YYYY-MM-DDThh:mm:ss and a zone Z or +hh:mm.
str_to_datetime_ok(created) ==
    /\ ShapeAt(created, 1, "dddd-dd-dd")
    /\ LET rest == SubSeq(created, 11, Len(created))
       IN  \/ rest = ""
           \/ /\ ShapeAt(rest, 1, "Tdd:dd:dd")
              /\ LET zone == SubSeq(rest, 10, Len(rest))
                 IN  \/ zone \in {"", "Z"}
                     \/ Len(zone) = 6 /\ ShapeAt(zone, 1, "+dd:dd")
                     \/ Len(zone) = 6 /\ ShapeAt(zone, 1, "-dd:dd")

\* re.search(r'(Z|[+-]\d\d:\d\d)$', created)
ZoneSearch(created) ==
    \E pos \in 1..Len(created) :
        /\ AtDollar(created, pos)
        /\ \/ Char(created, pos) = "Z"
           \/ ShapeAt(created, pos - 5, "+dd:dd")
           \/ ShapeAt(created, pos - 5, "-dd:dd")

\* re.search(r'T\d\d:\d\d:\d\d', created)
TimeSearch(created) == \E i \in 1..Len(created) : ShapeAt(created, i, "Tdd:dd:dd")

\* validate_versions, the check of 'created' of version v
version_created(c, v, version) ==
    IF c.exc # "none" THEN c
    ELSE IF PyIn("created", version) = "TypeError" THEN Raise(c, "TypeError")
    ELSE IF PyIn("created", version) = "F"
    THEN iv_error(c, "E401", << <<"version", Str(v)>> >>)
    ELSE IF version.t # "dict" THEN Raise(c, "TypeError")
    ELSE IF Get(version, "created").t # "str"
    THEN iv_error(c, "E401", << <<"version", Str(v)>> >>)
    ELSE LET created == Get(version, "created").s
             c1 == IF ZoneSearch(created) THEN c
                   ELSE iv_warn(c, "W208", << <<"version", Str(v)>> >>)
         IN  IF ~str_to_datetime_ok(created)
             THEN iv_error(c, "E402", << <<"version", Str(v)>>,
                                         <<"description", Str("ValueError")>> >>)
             ELSE IF TimeSearch(created) THEN c1
             ELSE iv_warn(c1, "W209", << <<"version", Str(v)>> >>)

\* validate_versions, the check of 'state' of version v
version_state(c, v, version) ==
    IF c.exc # "none" THEN c
    ELSE IF PyIn("state", version) = "TypeError" THEN Raise(c, "TypeError")
    ELSE IF PyIn("state", version) = "F"
    THEN iv_error(c, "E410", << <<"version", Str(v)>> >>)
    ELSE IF version.t # "dict" THEN Raise(c, "TypeError")
    ELSE LET r == validate_state_block(c, Get(version, "state"))
         IN  IF r.c.exc # "none" THEN r.c
             ELSE [r.c EXCEPT !.digests_used = @ \o r.digests]

\* validate_versions, the check of 'message' of version v
version_message(c, v, version) ==
    IF c.exc # "none" THEN c
    ELSE IF PyIn("message", version) = "TypeError" THEN Raise(c, "TypeError")
    ELSE IF PyIn("message", version) = "F"
    THEN iv_warn(c, "W201", << <<"version", Str(v)>> >>)
    ELSE IF version.t # "dict" THEN Raise(c, "TypeError")
    ELSE IF Get(version, "message").t # "str"
    THEN iv_error(c, "E403", << <<"version", Str(v)>> >>)
    ELSE c

\* validate_versions, the checks of a 'user' that is a dict
user_fields(c, v, user) ==
    LET c1 == IF ~Has(user, "name") \/ Get(user, "name").t # "str"
              THEN iv_error(c, "E405", << <<"version", Str(v)>> >>) ELSE c
    IN  IF ~Has(user, "address")
        THEN iv_warn(c1, "W210", << <<"version", Str(v)>> >>)
        ELSE IF Get(user, "address").t # "str"
        THEN iv_error(c1, "E406", << <<"version", Str(v)>> >>)
        ELSE c1

\* validate_versions, the check of 'user' of version v
version_user(c, v, version) ==
    IF c.exc # "none" THEN c
    ELSE IF PyIn("user", version) = "TypeError" THEN Raise(c, "TypeError")
    ELSE IF PyIn("user", version) = "F"
    THEN iv_warn(c, "W202", << <<"version", Str(v)>> >>)
    ELSE IF version.t # "dict" THEN Raise(c, "TypeError")
    ELSE IF Get(version, "user").t # "dict"
    THEN iv_error(c, "E404", << <<"version", Str(v)>> >>)
    ELSE user_fields(c, v, Get(version, "user"))

\* InventoryValidator.validate_versions: the context after the call, its
\* digests_used extended by the digests of the states of all_versions
RECURSIVE validate_versions(_, _, _)
validate_versions(c, versions, all_versions) ==
    IF all_versions = <<>> \/ c.exc # "none" THEN c
    ELSE LET v == Head(all_versions)
             version == Get(versions, v)
         IN  validate_versions(
               version_user(
                 version_message(
                   version_state(
                     version_created(c, v, version), v, version), v, version),
                 v, version),
               versions, Tail(all_versions))

\* InventoryValidator.check_digests_present_and_used
check_digests_present_and_used(c, manifest, digests_used) ==
    IF manifest.t # "dict" THEN Raise(c, "AttributeError")
    ELSE IF KeySet(manifest) = Range(digests_used) THEN c
    ELSE LET not_in_state ==
                 SelectSeq(Keys(manifest), LAMBDA d : d \notin Range(digests_used))
             not_in_manifest ==
                 SelectSeq(digests_used, LAMBDA d : ~Has(manifest, d))
             c1 == IF Len(not_in_manifest) > 0
                   THEN iv_error(c, "E913", << <<"description",
                          Str("in state but not in manifest: "
                              \o Join(", ", not_in_manifest))>> >>)
                   ELSE c
         IN  IF Len(not_in_state) > 0
             THEN iv_error(c1, "E302", << <<"description",
                    Str("in manifest but not in state: "
                        \o Join(", ", not_in_state))>> >>)
             ELSE c1

\* validate, the check of 'id'
validate_id(c, inventory) ==
    IF c.exc # "none" THEN c
    ELSE IF ~Has(inventory, "id") THEN iv_error(c, "E100", <<>>)
    ELSE IF Get(inventory, "id").t # "str" \/ Get(inventory, "id").s = ""
    THEN iv_error(c, "E101", <<>>)
    ELSE IF ~IdMatch(Get(inventory, "id").s)
    THEN iv_warn(c, "W207", << <<"id", Get(inventory, "id")>> >>)
    ELSE c

\* validate, the check of 'type'
validate_type(c, inventory) ==
    IF c.exc # "none" THEN c
    ELSE IF ~Has(inventory, "type") THEN iv_error(c, "E102", <<>>)
    ELSE IF Get(inventory, "type") # Str(InventoryType) THEN iv_error(c, "E103", <<>>)
    ELSE c

\* validate, the resolution of 'digestAlgorithm' with the test of sha256
\* before the test of lax_digests
validate_digest_algorithm_sha256_first(c, inventory) ==
    IF c.exc # "none" THEN c
    ELSE IF ~Has(inventory, "digestAlgorithm") THEN iv_error(c, "E104", <<>>)
    ELSE IF Get(inventory, "digestAlgorithm") = Str("sha512") THEN c
    ELSE IF Get(inventory, "digestAlgorithm") = Str("sha256")
    THEN [iv_warn(c, "W206", <<>>) EXCEPT
            !.self.digest_algorithm = Get(inventory, "digestAlgorithm")]
    ELSE IF c.self.lax_digests
    THEN [c EXCEPT !.self.digest_algorithm = Get(inventory, "digestAlgorithm")]
    ELSE iv_error(c, "E105", << <<"digest_algorithm",
                                  Get(inventory, "digestAlgorithm")>> >>)

\* validate, the resolution of 'digestAlgorithm'
validate_digest_algorithm(c, inventory) ==
    IF c.exc # "none" THEN c
    ELSE IF ~Has(inventory, "digestAlgorithm") THEN iv_error(c, "E104", <<>>)
    ELSE IF Get(inventory, "digestAlgorithm") = Str("sha512") THEN c
    ELSE IF c.self.lax_digests
    THEN [c EXCEPT !.self.digest_algorithm = Get(inventory, "digestAlgorithm")]
    ELSE IF Get(inventory, "digestAlgorithm") = Str("sha256")
    THEN [iv_warn(c, "W206", <<>>) EXCEPT
            !.self.digest_algorithm = Get(inventory, "digestAlgorithm")]
    ELSE iv_error(c, "E105", << <<"digest_algorithm",
                                  Get(inventory, "digestAlgorithm")>> >>)

\* validate, the check of 'contentDirectory'
validate_content_directory(c, inventory) ==
    IF c.exc # "none" \/ ~Has(inventory, "contentDirectory") THEN c
    ELSE LET cd == Get(inventory, "contentDirectory")
         IN  IF cd.t # "str" THEN iv_error(c, "E051", <<>>)
             ELSE IF Contains(cd.s, "/") \/ cd.s \in {".", ".."}
             THEN iv_error(c, "E051", <<>>)
             ELSE [c EXCEPT !.self.content_directory = cd.s]

\* validate, the 'manifest' block
validate_manifest_block(c, inventory) ==
    IF c.exc # "none" THEN c
    ELSE IF ~Has(inventory, "manifest") THEN iv_error(c, "E107", <<>>)
    ELSE LET r == validate_manifest(c, Get(inventory, "manifest"))
         IN  IF r.c.exc # "none" THEN r.c
             ELSE [r.c EXCEPT !.self.manifest_files = r.mf]

\* validate, the 'versions' block
validate_versions_block(c, inventory) ==
    IF c.exc # "none" THEN c
    ELSE IF ~Has(inventory, "versions") THEN iv_error(c, "E108", <<>>)
    ELSE LET r == validate_version_sequence(c, Get(inventory, "versions"))
         IN  validate_versions([r.c EXCEPT !.self.all_versions = r.ret],
                               Get(inventory, "versions"), r.ret)

\* validate, the check of 'head', comparing with the first version
validate_head_first(c, inventory) ==
    IF c.exc # "none" THEN c
    ELSE IF ~Has(inventory, "head") THEN iv_error(c, "E106", <<>>)
    ELSE IF c.self.all_versions = <<>> THEN Raise(c, "IndexError")
    ELSE LET head == Str(c.self.all_versions[1])
             c1 == [c EXCEPT !.self.head = head]
         IN  IF Get(inventory, "head") # head
             THEN iv_error(c1, "E914", << <<"got", Get(inventory, "head")>>,
                                          <<"expected", head>> >>)
             ELSE c1

\* validate, the check of 'head'
validate_head(c, inventory) ==
    IF c.exc # "none" THEN c
    ELSE IF ~Has(inventory, "head") THEN iv_error(c, "E106", <<>>)
    ELSE IF c.self.all_versions = <<>> THEN Raise(c, "IndexError")
    ELSE LET head == Str(c.self.all_versions[Len(c.self.all_versions)])
             c1 == [c EXCEPT !.self.head = head]
         IN  IF Get(inventory, "head") # head
             THEN iv_error(c1, "E914", << <<"got", Get(inventory, "head")>>,
                                          <<"expected", head>> >>)
             ELSE c1

\* validate, the final consistency check of manifest and states
validate_consistency(c, inventory) ==
    IF c.exc # "none" THEN c
    ELSE IF Has(inventory, "manifest") /\ Has(inventory, "versions")
    THEN check_digests_present_and_used(c, Get(inventory, "manifest"), c.digests_used)
    ELSE c

\* InventoryValidator.validate, for an inventory that is a dict: the
\* context after the call
validate(c, inventory) ==
    validate_consistency(
      validate_head(
        validate_versions_block(
          validate_manifest_block(
            validate_content_directory(
              validate_digest_algorithm(
                validate_type(
                  validate_id([c EXCEPT !.self.inventory = inventory], inventory),
                  inventory),
                inventory),
              inventory),
            inventory),
          inventory),
        inventory),
      inventory)

\* whether the logger has been given the code (self.codes)
Reported(lg, code) == Has(lg.codes, code)

---------------------------------------------------------------------------
(* The logger on its own: any sequence of error and warn calls *)

\* most calls made on one logger
MaxCalls == 3

\* no validator is involved
NoValidators == [v \in {} |-> None]

\* the calls made: a code and the context passed with it
LoggerCalls ==
    { <<"E914", Kw(<< <<"got", Str("v1")>>, <<"expected", Str("v2")>> >>)>>,
      <<"E914", Kw(<< <<"got", Str("v3")>> >>)>>,
      <<"E106", Kw(<<>>)>>,
      <<"W203", Kw(<< <<"where", Str("a")>> >>)>>,
      <<"W212", Kw(<< <<"version_dir", Str("v1")>> >>)>>,
      <<"X1", Kw(<< <<"where", Num(1)>> >>)>> }

InitLogger ==
    /\ \E w \in BOOLEAN, lang \in {"en", "fr"} : log = LoggerInit(w, lang)
    /\ vals = NoValidators
    /\ exc = "none"
    /\ op = "init"
    /\ arg = None
    /\ ret = None

LogError ==
    /\ Len(log.calls) < MaxCalls
    /\ \E c \in LoggerCalls : log' = error(log, c[1], c[2])
    /\ op' = "error"
    /\ UNCHANGED <<vals, exc, arg, ret>>

LogWarn ==
    /\ Len(log.calls) < MaxCalls
    /\ \E c \in LoggerCalls : log' = warn(log, c[1], c[2])
    /\ op' = "warn"
    /\ UNCHANGED <<vals, exc, arg, ret>>

NextLogger == LogError \/ LogWarn

SpecLogger == InitLogger /\ [][NextLogger]_vars

\* number of calls made so far with the given severity
CallCount(lg, severity) ==
    Cardinality({i \in 1..Len(lg.calls) : lg.calls[i].severity = severity})

\* how many times s occurs in the sequence strs
Occurrences(strs, s) == Cardinality({i \in 1..Len(strs) : strs[i] = s})

\* the messages of the calls that belong in the report, in call order
ReportedMessages(lg) ==
    LET kept == SelectSeq(lg.calls, LAMBDA c : c.severity = "error" \/ lg.warnings)
    IN  [i \in 1..Len(kept) |-> kept[i].message]

IsSorted(strs) == \A i \in 1..Len(strs) - 1 : ~StrLess(strs[i + 1], strs[i])

\* C7 as stated: the report holds each distinct code at most once, with the
\* message of the last call made for that code, in sorted order, and lines
\* of warn calls only when the logger includes warnings.
C7_OneLinePerCode ==
    LET lines == ReportLines(log)
        LinesOf(code) ==
            {i \in 1..Len(lines) :
                \E j \in 1..Len(log.calls) :
                    log.calls[j].code = code /\ log.calls[j].message = lines[i]}
    IN  /\ IsSorted(lines)
        /\ \A j \in 1..Len(log.calls) :
              LET code == log.calls[j].code
              IN  /\ Cardinality(LinesOf(code)) <= 1
                  /\ \A i \in LinesOf(code) : lines[i] = Get(log.codes, code)
        /\ \A i \in 1..Len(lines) :
              \E j \in 1..Len(log.calls) :
                  /\ log.calls[j].message = lines[i]
                  /\ (log.calls[j].severity = "error" \/ log.warnings)

\* C7 amended: the report holds one line per error call and, when the
\* logger includes warnings, one per warn call, each with the message
\* rendered for that call (a code reported n times gives n lines), in sorted
\* order; warn calls give no line when warnings are not included.  The last
\* message of each code is kept in codes only.
C7_OneLinePerCall ==
    LET lines == ReportLines(log)
        kept == ReportedMessages(log)
    IN  /\ IsSorted(lines)
        /\ Len(lines) = Len(kept)
        /\ \A i \in 1..Len(kept) :
              Occurrences(lines, kept[i]) = Occurrences(kept, kept[i])
        /\ \A j \in 1..Len(log.calls) :
              /\ Has(log.codes, log.calls[j].code)
              /\ (\A k \in (j + 1)..Len(log.calls) :
                     log.calls[k].code # log.calls[j].code)
                 => Get(log.codes, log.calls[j].code) = log.calls[j].message

\* C7 witness: one code reported twice with different messages, out of
\* sorted order, and a warn call that is left out of the report.
C7_Witness ==
    /\ ~log.warnings
    /\ Len(log.calls) = 3
    /\ log.calls[1].code = "E914" /\ log.calls[1].severity = "error"
    /\ log.calls[2].code = "E914" /\ log.calls[2].severity = "error"
    /\ StrLess(log.calls[2].message, log.calls[1].message)
    /\ log.calls[3].severity = "warning"
    /\ Len(ReportLines(log)) = 2

\* C8: every error call adds one to num_errors and nothing to num_warnings,
\* every warn call adds one to num_warnings and nothing to num_errors,
\* whatever the code, the context and the warnings setting; so the counters
\* equal the numbers of calls made and never decrease.
C8_Counters ==
    /\ [](/\ log.num_errors = CallCount(log, "error")
          /\ log.num_warnings = CallCount(log, "warning"))
    /\ [][/\ op' = "error" => /\ log'.num_errors = log.num_errors + 1
                              /\ log'.num_warnings = log.num_warnings
          /\ op' = "warn" => /\ log'.num_warnings = log.num_warnings + 1
                             /\ log'.num_errors = log.num_errors]_vars

\* C8 witness: a logger that leaves warnings out of its report has counted
\* a warn call for a code outside the catalog, an error call lacking a
\* declared parameter and a second error call.
C8_Witness ==
    /\ ~log.warnings
    /\ Len(log.calls) = 3
    /\ log.calls[1].code = "X1" /\ log.calls[1].severity = "warning"
    /\ log.calls[2].code = "E914" /\ log.calls[2].severity = "error"
    /\ ~Has(log.calls[2].args, "expected")
    /\ log.calls[3].severity = "error"
    /\ log.num_errors = 2 /\ log.num_warnings = 1

---------------------------------------------------------------------------
(* The version-sequence resolver on its own *)

\* the version directory names offered: v1..v<MaxUnpadded>,
\* v01..v<MaxPadded2> and v001
MaxUnpadded == 3
MaxPadded2 == 10

VersionNames ==
    [i \in 1..MaxUnpadded |-> VersionName(0, i)]
    \o [i \in 1..MaxPadded2 |-> VersionName(2, i)]
    \o <<VersionName(3, 1)>>

\* the dict whose keys are the names at the positions in idx, in order
VersionsDict(idx) ==
    Dict(SelectSeq([i \in 1..Len(VersionNames) |->
                       IF i \in idx THEN <<VersionNames[i], Dict(<<>>)>>
                       ELSE <<"", None>>],
                   LAMBDA kv : kv[1] # ""))

VersionsInputs ==
    {VersionsDict(idx) : idx \in SUBSET (1..Len(VersionNames))}
    \cup {List(<<Str("v1")>>), Str("v1")}

InitSeq ==
    /\ log = LoggerInit(TRUE, "en")
    /\ vals = [v \in {"self"} |-> NewValidator("???", FALSE)]
    /\ exc = "none"
    /\ op = "init"
    /\ arg \in VersionsInputs
    /\ ret = None

ValidateVersionSequence ==
    /\ op = "init"
    /\ LET r == validate_version_sequence(Ctx(vals["self"]), arg)
       IN  /\ log' = LogAll(log, r.c.calls)
           /\ vals' = [vals EXCEPT !["self"] = r.c.self]
           /\ exc' = r.c.exc
           /\ ret' = r.ret
    /\ op' = "validate_version_sequence"
    /\ UNCHANGED arg

NextSeq == ValidateVersionSequence

SpecSeq == InitSeq /\ [][NextSeq]_vars

\* the name of version n in a scheme: n in decimal after "v", with leading
\* zeros up to the scheme's width (width 0: none)
RECURSIVE Decimal(_, _)
Decimal(n, width) ==
    IF n = 0 /\ width <= 0 THEN ""
    ELSE Decimal(n \div 10, width - 1) \o Char("0123456789", (n % 10) + 1)
NameInScheme(width, n) == "v" \o Decimal(n, width)

\* the scheme of the version-1 key found: 0 for v1, else the smallest
\* width 2..10 whose zero-padded version 1 is a key, -1 if there is none
SchemeOf(keys) ==
    IF "v1" \in keys THEN 0
    ELSE IF \E w \in 2..10 : NameInScheme(w, 1) \in keys
    THEN CHOOSE w \in 2..10 :
             /\ NameInScheme(w, 1) \in keys
             /\ \A u \in 2..(w - 1) : NameInScheme(u, 1) \notin keys
    ELSE -1

\* the largest K <= cap with every version 1..K of the scheme among keys
LongestRun(keys, width, cap) ==
    CHOOSE K \in 0..Cardinality(keys) :
        /\ K <= cap
        /\ \A i \in 1..K : NameInScheme(width, i) \in keys
        /\ (K = cap \/ NameInScheme(width, K + 1) \notin keys)

\* C2 as stated: when a version-1 key is found, the result is the names of
\* versions 1..K of its scheme in ascending order, K the largest number
\* with every version 1..K present; E312 is reported exactly when some key
\* is not in the result, W203 exactly when the scheme is zero-padded.
C2_SequenceUncapped ==
    (op = "validate_version_sequence" /\ arg.t = "dict"
     /\ SchemeOf(KeySet(arg)) # -1) =>
        LET keys == KeySet(arg)
            width == SchemeOf(keys)
        IN  /\ ret = [i \in 1..LongestRun(keys, width, Cardinality(keys)) |->
                         NameInScheme(width, i)]
            /\ Reported(log, "E312") <=> (keys \ Range(ret) # {})
            /\ Reported(log, "W203") <=> (width > 0)

\* C2 amended: when a version-1 key is found, the result is the names of
\* versions 1..K of its scheme in ascending order, K the largest number, at
\* most 10^(width-1)-1 in a zero-padded scheme of that width (the names
\* that keep a leading zero) and at most 999999 in the unpadded one, with
\* every version 1..K present; E312 is reported exactly when some key is
\* not in the result, W203 exactly when the scheme is zero-padded.
C2_SequenceCapped ==
    (op = "validate_version_sequence" /\ arg.t = "dict"
     /\ SchemeOf(KeySet(arg)) # -1) =>
        LET keys == KeySet(arg)
            width == SchemeOf(keys)
            cap == IF width = 0 THEN 999999 ELSE (10 ^ (width - 1)) - 1
        IN  /\ ret = [i \in 1..LongestRun(keys, width, cap) |->
                         NameInScheme(width, i)]
            /\ Reported(log, "E312") <=> (keys \ Range(ret) # {})
            /\ Reported(log, "W203") <=> (width > 0)

\* C2 witness: v01..v10 are all present; the sequence ends at v09, the last
\* name of width 2 that starts with a zero, and v10 is out of sequence.
C2_Witness ==
    /\ op = "validate_version_sequence"
    /\ arg.t = "dict"
    /\ KeySet(arg) = {NameInScheme(2, i) : i \in 1..10}
    /\ Len(ret) = 9 /\ ret[9] = "v09"
    /\ Reported(log, "E312") /\ Reported(log, "W203")

---------------------------------------------------------------------------
(* validate on one inventory document *)

\* ch * n
RECURSIVE Rep(_, _)
Rep(ch, n) ==
    IF n = 0 THEN ""
    ELSE Rep(ch, n \div 2) \o Rep(ch, n \div 2) \o (IF n % 2 = 1 THEN ch ELSE "")

\* digests: two well-formed sha512 digests and one that is too short
DigestA == Rep("a", DigestLength512)
DigestB == Rep("b", DigestLength512)
DigestShort == Rep("a", DigestLength512 - 1)

PathA == Str("v1/content/a")
PathB == Str("v2/content/b")

\* version blocks
Created == Str("2018-10-02T12:00:00Z")
User == Dict(<< <<"name", Str("A")>>, <<"address", Str("mailto:a@b.c")>> >>)
Version(state, message) ==
    Dict(<< <<"created", Created>>, <<"state", state>>,
            <<"message", Str(message)>>, <<"user", User>> >>)
State(digests) == Dict([i \in 1..Len(digests) |-> <<digests[i], List(<<Str("f")>>)>>])

\* the fields id, type, digestAlgorithm and contentDirectory offered
Headers ==
    { << <<"id", Str("info:a")>>, <<"type", Str(InventoryType)>>,
         <<"digestAlgorithm", Str("sha512")>> >>,
      << <<"contentDirectory", Str("a/b")>> >>,
      << <<"id", Str("")>>, <<"type", Str("x")>>,
         <<"digestAlgorithm", Str("sha256")>>, <<"contentDirectory", Num(1)>> >>,
      << <<"id", Str("noauth")>>, <<"type", Str(InventoryType)>>,
         <<"digestAlgorithm", Str("md5")>>, <<"contentDirectory", Str("data")>> >>,
      << <<"id", Num(1)>>, <<"type", List(<<>>)>>,
         <<"digestAlgorithm", Str("sha512")>>, <<"contentDirectory", Str("..")>> >> }

\* the values of 'manifest' offered (<<>>: the field is missing)
Manifests ==
    { <<>>,
      << <<"manifest", Num(0)>> >>,
      << <<"manifest", List(<<Str(DigestA)>>)>> >>,
      << <<"manifest", Dict(<<>>)>> >>,
      << <<"manifest", Dict(<< <<DigestA, List(<<PathA>>)>> >>)>> >>,
      << <<"manifest", Dict(<< <<DigestB, List(<<PathB>>)>> >>)>> >>,
      << <<"manifest", Dict(<< <<DigestA, List(<<PathA>>)>>,
                               <<DigestB, List(<<PathB>>)>> >>)>> >>,
      << <<"manifest", Dict(<< <<DigestShort, List(<<PathA>>)>> >>)>> >>,
      << <<"manifest", Dict(<< <<DigestA, Str("v1/content/a")>> >>)>> >>,
      << <<"manifest", Dict(<< <<DigestA, List(<<Num(1)>>)>> >>)>> >>,
      << <<"manifest", Dict(<< <<DigestA, List(<<List(<<>>)>>)>> >>)>> >>,
      << <<"manifest", Dict(<< <<DigestA, List(<<Str("content/a"), PathA>>)>> >>)>> >> }

\* the values of 'versions' offered
Versions ==
    { <<>>,
      << <<"versions", Num(0)>> >>,
      << <<"versions", List(<<Str("v1")>>)>> >>,
      << <<"versions", Dict(<<>>)>> >>,
      << <<"versions", Dict(<< <<"v1", Version(State(<<>>), "m")>> >>)>> >>,
      << <<"versions", Dict(<< <<"v1", Version(State(<<DigestA>>), "m")>> >>)>> >>,
      << <<"versions", Dict(<< <<"v1", Version(State(<<DigestA, DigestB>>), "m")>> >>)>> >>,
      << <<"versions", Dict(<< <<"v1", Version(State(<<DigestShort>>), "m")>> >>)>> >>,
      << <<"versions", Dict(<< <<"v1", Version(Num(0), "m")>> >>)>> >>,
      << <<"versions", Dict(<< <<"v1", Version(Dict(<< <<DigestA, Num(0)>> >>), "m")>> >>)>> >>,
      << <<"versions", Dict(<< <<"v1", Num(7)>> >>)>> >>,
      << <<"versions", Dict(<< <<"v1", List(<<>>)>> >>)>> >>,
      << <<"versions", Dict(<< <<"v1", Str("created")>> >>)>> >>,
      << <<"versions", Dict(<< <<"v1", Dict(<< <<"state", State(<<DigestA>>)>> >>)>> >>)>> >>,
      << <<"versions", Dict(<< <<"v1", Dict(<< <<"created", Str("2018-10-02")>>,
               <<"message", Num(0)>>, <<"user", Dict(<< <<"address", Num(0)>> >>)>> >>)>> >>)>> >>,
      << <<"versions", Dict(<< <<"v1", Dict(<< <<"created", Str("yesterday")>>,
               <<"state", State(<<DigestB>>)>>, <<"user", Str("A")>> >>)>> >>)>> >>,
      << <<"versions", Dict(<< <<"v1", Version(State(<<DigestA>>), "m")>>,
                               <<"v2", Version(State(<<DigestB>>), "n")>> >>)>> >>,
      << <<"versions", Dict(<< <<"v1", Version(State(<<DigestA>>), "m")>>,
                               <<"v3", Version(State(<<DigestB>>), "n")>> >>)>> >>,
      << <<"versions", Dict(<< <<"v01", Version(State(<<DigestA>>), "m")>>,
                               <<"v02", Version(State(<<DigestA>>), "n")>> >>)>> >>,
      << <<"versions", Dict(<< <<"v2", Version(State(<<DigestA>>), "m")>> >>)>> >> }

\* the values of 'head' offered
Heads ==
    { <<>>, << <<"head", Str("v1")>> >>, << <<"head", Str("v2")>> >>,
      << <<"head", Str("v02")>> >>, << <<"head", Num(1)>> >> }

\* the inventory documents offered to validate: JSON objects
Inventories ==
    {Dict(h \o m \o v \o hd) : h \in Headers, m \in Manifests, v \in Versions, hd \in Heads}

InitValidate ==
    /\ log = LoggerInit(TRUE, "en")
    /\ \E lax \in BOOLEAN : vals = [v \in {"self"} |-> NewValidator("???", lax)]
    /\ exc = "none"
    /\ op = "init"
    /\ arg = None
    /\ ret = None

\* self.validate(inventory) on a validator not yet used, for one of the
\* inventories
ValidateOneOf(v, inventories) ==
    /\ vals[v].inventory = None
    /\ \E inventory \in inventories :
          LET c == validate(Ctx(vals[v]), inventory)
          IN  /\ log' = LogAll(log, c.calls)
              /\ vals' = [vals EXCEPT ![v] = c.self]
              /\ exc' = c.exc
    /\ op' = "validate"
    /\ UNCHANGED <<arg, ret>>

Validate(v) == ValidateOneOf(v, Inventories)

NextValidate == Validate("self")

SpecValidate == InitValidate /\ [][NextValidate]_vars

\* the document given to validate, and the calls made with a code
Doc == vals["self"].inventory
CallsOf(code) == {i \in 1..Len(log.calls) : log.calls[i].code = code}

\* C1 as stated: validate never aborts; for every inventory document that
\* is a JSON object, whatever the shape of its fields, it returns normally.
C1_NeverAborts == op = "validate" => exc = "none"

\* the digests that are keys of the manifest, and the digests that are keys
\* of the state of some version of the document
DocManifestDigests == KeySet(Get(Doc, "manifest"))
DocStateDigests ==
    UNION {KeySet(Get(Get(Get(Doc, "versions"), v), "state")) :
             v \in KeySet(Get(Doc, "versions"))}

\* the document has a manifest and versions of the right types, its version
\* names are exactly versions 1..N of one scheme, and all its digests have
\* the format of the validator's digest algorithm
DocWellTyped ==
    /\ Has(Doc, "manifest") /\ Get(Doc, "manifest").t = "dict"
    /\ Has(Doc, "versions") /\ Get(Doc, "versions").t = "dict"
    /\ LET versions == Get(Doc, "versions")
       IN  /\ \E w \in {0, 2} :
                 KeySet(versions) =
                     {NameInScheme(w, i) : i \in 1..Cardinality(KeySet(versions))}
           /\ \A v \in KeySet(versions) :
                 /\ Get(versions, v).t = "dict"
                 /\ Has(Get(versions, v), "state")
                 /\ Get(Get(versions, v), "state").t = "dict"
    /\ \A d \in DocManifestDigests \cup DocStateDigests :
          ReMatch(digest_regex(vals["self"]), d)

\* C3 as stated, for a well-typed document: after validate the error
\* 'manifest digest unused' (E302) is reported exactly when some digest key
\* of the manifest is referenced by no version's state, and the error
\* 'dangling reference' (E913 with a description) exactly when some digest
\* referenced by a version's state is not a key of the manifest.
C3_DigestsPresentAndUsed ==
    (op = "validate" /\ DocWellTyped) =>
        /\ (CallsOf("E302") # {}) <=> (DocManifestDigests \ DocStateDigests # {})
        /\ (\E i \in CallsOf("E913") : Has(log.calls[i].args, "description"))
              <=> (DocStateDigests \ DocManifestDigests # {})

\* C4 as stated: when validate returns, a head-related error (E106, E914) is
\* reported only when 'head' is present and differs from the last element of
\* the valid version sequence, and then it carries the value found and the
\* value expected; no 'head', or 'head' equal to the last version, gives no
\* head-related error.
C4_HeadOptional ==
    (op = "validate" /\ exc = "none") =>
        LET self == vals["self"]
            last == Str(self.all_versions[Len(self.all_versions)])
        IN  /\ (CallsOf("E106") \cup CallsOf("E914") # {})
                  <=> (Has(Doc, "head") /\ Get(Doc, "head") # last)
            /\ \A i \in CallsOf("E106") \cup CallsOf("E914") :
                  /\ Get(log.calls[i].args, "got") = Get(Doc, "head")
                  /\ Get(log.calls[i].args, "expected") = last

\* C4: 'head' is required.  E914 is reported only when 'head' is present,
\* the valid version sequence is not empty and 'head' differs from its last
\* element, and it carries the value found and the value expected; E106 is
\* reported only when 'head' is absent.  When validate returns normally, a
\* document without 'head' has E106, a 'head' that differs from the last
\* valid version has E914, and a 'head' equal to it has no head error.
C4_HeadRequired ==
    op = "validate" =>
        LET self == vals["self"]
            last == Str(self.all_versions[Len(self.all_versions)])
        IN  /\ \A i \in CallsOf("E914") :
                  /\ Has(Doc, "head") /\ self.all_versions # <<>>
                  /\ Get(Doc, "head") # last
                  /\ log.calls[i].args =
                         Kw(<< <<"where", Str(self.where)>>,
                               <<"got", Get(Doc, "head")>>, <<"expected", last>> >>)
                  /\ log.calls[i].message =
                         "[E914] head " \o PyStr(Get(Doc, "head")) \o " not "
                             \o PyStr(last)
            /\ CallsOf("E106") # {} => ~Has(Doc, "head")
            /\ exc = "none" =>
                  /\ ~Has(Doc, "head") => CallsOf("E106") # {}
                  /\ Has(Doc, "head") =>
                        /\ self.all_versions # <<>>
                        /\ self.head = last
                        /\ (Get(Doc, "head") # last) <=> (CallsOf("E914") # {})

\* head is v1 and the last valid version is v2: E914 naming both
C4_Witness ==
    /\ op = "validate" /\ exc = "none"
    /\ Has(Doc, "head") /\ Get(Doc, "head") = Str("v1")
    /\ vals["self"].all_versions = <<"v1", "v2">>
    /\ \E i \in CallsOf("E914") :
          /\ Get(log.calls[i].args, "got") = Str("v1")
          /\ Get(log.calls[i].args, "expected") = Str("v2")

\* C11 as stated: sha512 is adopted with no diagnostic; sha256 is adopted
\* and always gives the warning W206, in lax mode as well; any other value
\* gives E105 and leaves the algorithm at sha512 when lax mode is off, and
\* is adopted with no error when lax mode is on.
C11_ThreeBranches ==
    (op = "validate" /\ Has(Doc, "digestAlgorithm")) =>
        LET self == vals["self"]
            given == Get(Doc, "digestAlgorithm")
        IN  /\ given = Str("sha512") =>
                  /\ self.digest_algorithm = Str("sha512")
                  /\ CallsOf("W206") = {} /\ CallsOf("E105") = {}
            /\ given = Str("sha256") =>
                  /\ self.digest_algorithm = Str("sha256")
                  /\ CallsOf("W206") # {} /\ CallsOf("E105") = {}
            /\ given \notin {Str("sha512"), Str("sha256")} =>
                  IF self.lax_digests
                  THEN self.digest_algorithm = given /\ CallsOf("E105") = {}
                  ELSE /\ self.digest_algorithm = Str("sha512")
                       /\ CallsOf("E105") # {}

\* C11: sha512 is adopted with no diagnostic; sha256 is adopted, with the
\* warning W206 exactly when lax mode is off; any other value gives E105
\* (carrying the value) and leaves the algorithm at sha512 when lax mode is
\* off, and is adopted with no error and no warning when lax mode is on.
\* E104 is reported exactly when the document has no 'digestAlgorithm'.
C11_LaxBeforeSha256 ==
    op = "validate" =>
        LET self == vals["self"]
            given == Get(Doc, "digestAlgorithm")
        IN  /\ (CallsOf("E104") # {}) <=> ~Has(Doc, "digestAlgorithm")
            /\ ~Has(Doc, "digestAlgorithm") =>
                  /\ self.digest_algorithm = Str("sha512")
                  /\ CallsOf("W206") = {} /\ CallsOf("E105") = {}
            /\ Has(Doc, "digestAlgorithm") =>
                  /\ given = Str("sha512") =>
                        /\ self.digest_algorithm = Str("sha512")
                        /\ CallsOf("W206") = {} /\ CallsOf("E105") = {}
                  /\ given = Str("sha256") =>
                        /\ self.digest_algorithm = Str("sha256")
                        /\ (CallsOf("W206") # {}) <=> ~self.lax_digests
                        /\ CallsOf("E105") = {}
                  /\ given \notin {Str("sha512"), Str("sha256")} =>
                        /\ CallsOf("W206") = {}
                        /\ IF self.lax_digests
                           THEN /\ self.digest_algorithm = given
                                /\ CallsOf("E105") = {}
                           ELSE /\ self.digest_algorithm = Str("sha512")
                                /\ \E i \in CallsOf("E105") :
                                      Get(log.calls[i].args, "digest_algorithm") = given

\* sha256 in lax mode: adopted, and no W206
C11_Witness ==
    /\ op = "validate"
    /\ vals["self"].lax_digests
    /\ Has(Doc, "digestAlgorithm") /\ Get(Doc, "digestAlgorithm") = Str("sha256")
    /\ vals["self"].digest_algorithm = Str("sha256")
    /\ CallsOf("W206") = {}

---------------------------------------------------------------------------
(* validate on documents that differ in one digest *)

\* the digests offered: a run of one character and a last character, of the
\* lengths around those of sha256 and sha512
DigestLengths ==
    {DigestLength256 - 1, DigestLength256, DigestLength256 + 1,
     DigestLength512 - 1, DigestLength512, DigestLength512 + 1}
DigestRuns == {"a", "f", "0"}
DigestLasts == {"a", "9", "g", "z", "A", " ", "\n"}
Digests == {Rep(ch, n - 1) \o last : ch \in DigestRuns, n \in DigestLengths,
                                     last \in DigestLasts}

\* an otherwise valid inventory with the digest as the key of its manifest
\* and of the state of its version
DigestInventory(algorithm, digest) ==
    Dict(<< <<"id", Str("info:a")>>, <<"type", Str(InventoryType)>>,
            <<"digestAlgorithm", Str(algorithm)>>,
            <<"manifest", Dict(<< <<digest, List(<<PathA>>)>> >>)>>,
            <<"versions", Dict(<< <<"v1", Version(State(<<digest>>), "m")>> >>)>>,
            <<"head", Str("v1")>> >>)
DigestInventories ==
    {DigestInventory(algorithm, digest) :
         algorithm \in {"sha512", "sha256"}, digest \in Digests}

ValidateDigest(v) == ValidateOneOf(v, DigestInventories)

NextDigest == ValidateDigest("self")

SpecDigest == InitValidate /\ [][NextDigest]_vars

\* a string of n lowercase hexadecimal characters
IsLowerHex(s, n) ==
    /\ Len(s) = n
    /\ \A i \in 1..n : Char(s, i) \in Digits \cup {"a", "b", "c", "d", "e", "f"}

\* the digest key of the document's manifest and state
DocDigest == Get(Doc, "manifest").d[1][1]

\* C9 as stated: with lax mode off, the digest key of the manifest and of
\* the state is accepted (no E304, no E305) exactly when it is a string of
\* lowercase hexadecimal characters of length 128 under sha512, 64 under
\* sha256.
C9_LowerHexOnly ==
    (op = "validate" /\ ~vals["self"].lax_digests) =>
        LET length == IF vals["self"].digest_algorithm = Str("sha512")
                      THEN DigestLength512 ELSE DigestLength256
        IN  /\ (CallsOf("E304") = {}) <=> IsLowerHex(DocDigest, length)
            /\ (CallsOf("E305") = {}) <=> IsLowerHex(DocDigest, length)

---------------------------------------------------------------------------
(* validate_as_prior_version: two validators, prior and self *)

\* the items of "for item in x" for an iterable x
Items(x) ==
    CASE x.t = "list" -> x.l
      [] x.t = "dict" -> [i \in 1..Len(x.d) |-> Str(x.d[i][1])]
      [] OTHER -> [i \in 1..Len(x.s) |-> Str(Char(x.s, i))]

\* d.get(key)
PyGet(d, key) == IF Has(d, key) THEN Get(d, key) ELSE None

\* get_file_map, the value stored for the files of a digest: the digest
\* itself
file_map_digest(manifest, digest) == Str(digest)

\* get_file_map, the value stored for the files of a digest:
\* manifest[digest], the list of content paths
file_map_value(manifest, digest) == Get(manifest, digest)

\* get_file_map, the loop over state[digest]: fm = [exc, map]
RECURSIVE FileMapFiles(_, _, _)
FileMapFiles(fm, files, value) ==
    IF files = <<>> \/ fm.exc # "none" THEN fm
    ELSE IF ~Hashable(Head(files)) THEN [fm EXCEPT !.exc = "TypeError"]
    ELSE FileMapFiles([fm EXCEPT !.map = DictSet(@, Head(files), value)],
                      Tail(files), value)

\* get_file_map, the loop over the digests of the state
RECURSIVE FileMapDigests(_, _, _, _)
FileMapDigests(fm, state, manifest, i) ==
    IF i > Len(state.d) \/ fm.exc # "none" THEN fm
    ELSE LET digest == state.d[i][1]
         IN  FileMapDigests(
               IF ~Has(manifest, digest) THEN fm
               ELSE IF ~Iterable(state.d[i][2]) THEN [fm EXCEPT !.exc = "TypeError"]
               ELSE FileMapFiles(fm, Items(state.d[i][2]),
                                 file_map_value(manifest, digest)),
               state, manifest, i + 1)

\* get_file_map(inventory, version_dir), for an inventory whose versions and
\* manifest are dicts and whose state is a dict or not iterable: the
\* exception raised, if any, and the map file in state -> files on disk
get_file_map(inventory, version_dir) ==
    IF \/ ~Has(inventory, "versions")
       \/ ~Has(Get(inventory, "versions"), version_dir)
       \/ ~Has(Get(Get(inventory, "versions"), version_dir), "state")
       \/ ~Has(inventory, "manifest")
    THEN [exc |-> "KeyError", map |-> Dict(<<>>)]
    ELSE LET state == Get(Get(Get(inventory, "versions"), version_dir), "state")
         IN  IF state.t # "dict" THEN [exc |-> "TypeError", map |-> Dict(<<>>)]
             ELSE FileMapDigests([exc |-> "none", map |-> Dict(<<>>)],
                                 state, Get(inventory, "manifest"), 1)

\* validate_as_prior_version, the loop over the files of prior_map
RECURSIVE lineage_files(_, _, _, _, _, _)
lineage_files(c, prior, version_dir, prior_map, self_map, files) ==
    IF files = <<>> THEN c
    ELSE lineage_files(
           IF Get(prior_map, Head(files)) # Get(self_map, Head(files))
           THEN iv_error(c, "E410", << <<"version_dir", Str(version_dir)>>,
                                       <<"prior_head", prior.head>>,
                                       <<"file", Head(files)>> >>)
           ELSE c,
           prior, version_dir, prior_map, self_map, Tail(files))

\* validate_as_prior_version, the loop over prior.all_versions
RECURSIVE lineage_versions(_, _, _)
lineage_versions(c, prior, dirs) ==
    IF dirs = <<>> \/ c.exc # "none" THEN c
    ELSE LET version_dir == Head(dirs)
             prior_map == get_file_map(prior.inventory, version_dir)
             self_map == get_file_map(c.self.inventory, version_dir)
         IN  IF prior_map.exc # "none" THEN Raise(c, prior_map.exc)
             ELSE IF self_map.exc # "none" THEN Raise(c, self_map.exc)
             ELSE lineage_versions(
                    IF KeySet(prior_map.map) # KeySet(self_map.map)
                    THEN iv_error(c, "E409", << <<"version_dir", Str(version_dir)>>,
                                                <<"prior_head", prior.head>> >>)
                    ELSE lineage_files(c, prior, version_dir, prior_map.map,
                                       self_map.map, Keys(prior_map.map)),
                    prior, Tail(dirs))

\* validate_as_prior_version, the loop over the keys of the metadata
RECURSIVE lineage_keys(_, _, _, _, _, _)
lineage_keys(c, prior, version_dir, prior_version, self_version, keys) ==
    IF keys = <<>> THEN c
    ELSE lineage_keys(
           IF PyGet(prior_version, Head(keys)) # PyGet(self_version, Head(keys))
           THEN iv_warn(c, "W212", << <<"version_dir", Str(version_dir)>>,
                                      <<"prior_head", prior.head>>,
                                      <<"key", Str(Head(keys))>> >>)
           ELSE c,
           prior, version_dir, prior_version, self_version, Tail(keys))

\* validate_as_prior_version, the check of the metadata after the loop:
\* version_dir is what the loop left in it, the last of prior.all_versions
lineage_metadata(c, prior) ==
    IF c.exc # "none" THEN c
    ELSE IF prior.all_versions = <<>> THEN Raise(c, "UnboundLocalError")
    ELSE LET version_dir == prior.all_versions[Len(prior.all_versions)]
         IN  IF \/ ~Has(Get(c.self.inventory, "versions"), version_dir)
                \/ ~Has(Get(prior.inventory, "versions"), version_dir)
             THEN Raise(c, "KeyError")
             ELSE lineage_keys(c, prior, version_dir,
                               Get(Get(prior.inventory, "versions"), version_dir),
                               Get(Get(c.self.inventory, "versions"), version_dir),
                               <<"created", "message", "user">>)

\* validate_as_prior_version, from the elif on
lineage_manifest(c, prior) ==
    IF prior.manifest_files = None \/ c.self.manifest_files = None
    THEN Raise(c, "AttributeError")
    ELSE IF ~(KeySet(prior.manifest_files) \subseteq KeySet(c.self.manifest_files))
    THEN iv_error(c, "E408", << <<"prior_head", prior.head>> >>)
    ELSE lineage_metadata(lineage_versions(c, prior, prior.all_versions), prior)

\* validate_as_prior_version with each rule checked on its own
validate_as_prior_version_each(c, prior) ==
    lineage_manifest(
      IF ~(Range(prior.all_versions) \subseteq Range(c.self.all_versions))
      THEN iv_error(c, "E407", << <<"prior_head", prior.head>> >>)
      ELSE c,
      prior)

\* InventoryValidator.validate_as_prior_version, for validators that have
\* validated inventories with 'versions': the context after the call
validate_as_prior_version(c, prior) ==
    IF ~(Range(prior.all_versions) \subseteq Range(c.self.all_versions))
    THEN iv_error(c, "E407", << <<"prior_head", prior.head>> >>)
    ELSE lineage_manifest(c, prior)

\* manifests offered: one digest, two digests, a second content path for
\* the digest, and the one content path under the other digest
PathA2 == Str("v2/content/a")
LineageManifests ==
    { Dict(<< <<DigestA, List(<<PathA>>)>> >>),
      Dict(<< <<DigestA, List(<<PathA>>)>>, <<DigestB, List(<<PathB>>)>> >>),
      Dict(<< <<DigestA, List(<<PathA, PathA2>>)>> >>),
      Dict(<< <<DigestB, List(<<PathA>>)>> >>) }

\* a version block with one digest in its state
LineageVersion(digest, files, message) ==
    Version(Dict(<< <<digest, List(files)>> >>), message)

\* versions v1 offered, and versions v2 (<<>>: there is no v2)
LineageV1 ==
    { LineageVersion(DigestA, <<Str("f")>>, "m"),
      LineageVersion(DigestA, <<Str("f")>>, "m2"),
      LineageVersion(DigestB, <<Str("f")>>, "m"),
      LineageVersion(DigestA, <<Str("f"), Str("g")>>, "m") }
LineageV2 ==
    { <<>>,
      << <<"v2", LineageVersion(DigestB, <<Str("f")>>, "n")>> >>,
      << <<"v2", LineageVersion(DigestA, <<Str("f")>>, "n2")>> >> }

\* the inventories offered: versions v1, or v1 and v2, with their head, and
\* an inventory without versions in the sequence and without head
LineageInventories ==
    {Dict(<< <<"id", Str("info:a")>>, <<"type", Str(InventoryType)>>,
             <<"digestAlgorithm", Str("sha512")>>, <<"manifest", m>>,
             <<"versions", Dict(<< <<"v1", v1>> >> \o v2)>>,
             <<"head", Str(IF v2 = <<>> THEN "v1" ELSE "v2")>> >>) :
         m \in LineageManifests, v1 \in LineageV1, v2 \in LineageV2}
    \cup
    {Dict(<< <<"id", Str("info:a")>>, <<"type", Str(InventoryType)>>,
             <<"digestAlgorithm", Str("sha512")>>, <<"manifest", m>>,
             <<"versions", Dict(<<>>)>> >>) : m \in LineageManifests}

InitLineage ==
    /\ log = LoggerInit(TRUE, "en")
    /\ vals = [v \in {"prior", "self"} |-> NewValidator(v, FALSE)]
    /\ exc = "none"
    /\ op = "init"
    /\ arg = None
    /\ ret = None

\* v.validate(inventory), for the inventories of a lineage
ValidateLineage(v) ==
    /\ exc = "none"
    /\ ValidateOneOf(v, LineageInventories)

\* self.validate_as_prior_version(prior), once both have validated
ValidateAsPriorVersion ==
    /\ exc = "none"
    /\ op # "validate_as_prior_version"
    /\ vals["prior"].inventory # None
    /\ vals["self"].inventory # None
    /\ LET c == validate_as_prior_version(Ctx(vals["self"]), vals["prior"])
       IN  /\ log' = LogAll(log, c.calls)
           /\ exc' = c.exc
    /\ op' = "validate_as_prior_version"
    /\ UNCHANGED <<vals, arg, ret>>

NextLineage ==
    \/ ValidateLineage("prior")
    \/ ValidateLineage("self")
    \/ ValidateAsPriorVersion

SpecLineage == InitLineage /\ [][NextLineage]_vars

\* the two validators, and the calls validate_as_prior_version made with a
\* code (they carry prior_head)
Prior == vals["prior"]
Self == vals["self"]
LineageDone == op = "validate_as_prior_version"
LineageCalls(code) ==
    {i \in CallsOf(code) : Has(log.calls[i].args, "prior_head")}

\* R1: prior's version sequence is a subset of self's; R2: prior's manifest
\* content paths are a subset of self's
ContentPaths(inventory) ==
    LET manifest == Get(inventory, "manifest")
    IN  UNION {Range(manifest.d[i][2].l) : i \in 1..Len(manifest.d)}
SharedVersions == Range(Prior.all_versions) \cap Range(Self.all_versions)
R1 == Range(Prior.all_versions) \subseteq Range(Self.all_versions)
R2 == ContentPaths(Prior.inventory) \subseteq ContentPaths(Self.inventory)

\* the logical filenames of a version that resolve through the manifest,
\* the digest a filename resolves to and the content paths of that digest
StateOf(inventory, version_dir) ==
    Get(Get(Get(inventory, "versions"), version_dir), "state")
ResolvedDigests(inventory, version_dir) ==
    KeySet(StateOf(inventory, version_dir)) \cap KeySet(Get(inventory, "manifest"))
FilesOf(inventory, version_dir) ==
    UNION {Range(Get(StateOf(inventory, version_dir), d).l) :
             d \in ResolvedDigests(inventory, version_dir)}
DigestOf(inventory, version_dir, file) ==
    CHOOSE d \in ResolvedDigests(inventory, version_dir) :
        file \in Range(Get(StateOf(inventory, version_dir), d).l)
PathsOf(inventory, version_dir, file) ==
    Get(Get(inventory, "manifest"), DigestOf(inventory, version_dir, file))

\* whether validate_as_prior_version reported the code for the version, and
\* for the file of the version
ReportedFor(code, version_dir) ==
    \E i \in LineageCalls(code) :
        Get(log.calls[i].args, "version_dir") = Str(version_dir)
ReportedForFile(code, version_dir, file) ==
    \E i \in LineageCalls(code) :
        /\ Get(log.calls[i].args, "version_dir") = Str(version_dir)
        /\ Get(log.calls[i].args, "file") = file

\* C5 as stated: when R1 and R2 hold, an R3 error (E409, E410) is reported
\* for a shared version exactly when the logical-filename sets of the two
\* inventories differ or some filename resolves to a different digest
\* string in self than in prior.
C5_SameDigests ==
    (LineageDone /\ R1 /\ R2) =>
        \A v \in SharedVersions :
            (ReportedFor("E409", v) \/ ReportedFor("E410", v))
            <=> \/ FilesOf(Prior.inventory, v) # FilesOf(Self.inventory, v)
                \/ \E f \in FilesOf(Prior.inventory, v) \cap FilesOf(Self.inventory, v) :
                       DigestOf(Prior.inventory, v, f) # DigestOf(Self.inventory, v, f)

\* C5: when R1 and R2 hold, for every shared version E409 is reported
\* exactly when the logical-filename sets of the two inventories differ, and
\* otherwise E410 is reported for a filename exactly when the list of
\* manifest content paths of its digest differs between prior and self,
\* whether or not the digest strings are equal.
C5_SameContentPaths ==
    (LineageDone /\ R1 /\ R2) =>
        \A v \in SharedVersions :
            /\ ReportedFor("E409", v)
                  <=> FilesOf(Prior.inventory, v) # FilesOf(Self.inventory, v)
            /\ ReportedFor("E410", v)
                  => FilesOf(Prior.inventory, v) = FilesOf(Self.inventory, v)
            /\ FilesOf(Prior.inventory, v) = FilesOf(Self.inventory, v) =>
                  \A f \in FilesOf(Prior.inventory, v) :
                      ReportedForFile("E410", v, f)
                      <=> PathsOf(Prior.inventory, v, f) # PathsOf(Self.inventory, v, f)

\* self has a second content path for the digest of prior's file: E410,
\* although the file has the same digest in both
C5_Witness ==
    /\ LineageDone /\ R1 /\ R2
    /\ "v1" \in SharedVersions
    /\ ReportedForFile("E410", "v1", Str("f"))
    /\ DigestOf(Prior.inventory, "v1", Str("f")) = DigestOf(Self.inventory, "v1", Str("f"))
    /\ PathsOf(Prior.inventory, "v1", Str("f")) = List(<<PathA>>)
    /\ PathsOf(Self.inventory, "v1", Str("f")) = List(<<PathA, PathA2>>)

\* C6 as stated: after validate_as_prior_version returns with R1 and R2
\* holding, for every shared version each of the fields created, message
\* and user that differs between the inventories has a W212 warning naming
\* the version and the field, and W212 is only ever a warning.
C6_MetadataOfEveryVersion ==
    (LineageDone /\ exc = "none" /\ R1 /\ R2) =>
        /\ \A v \in SharedVersions : \A key \in {"created", "message", "user"} :
              PyGet(Get(Get(Prior.inventory, "versions"), v), key)
                  # PyGet(Get(Get(Self.inventory, "versions"), v), key)
              => \E i \in LineageCalls("W212") :
                     /\ Get(log.calls[i].args, "version_dir") = Str(v)
                     /\ Get(log.calls[i].args, "key") = Str(key)
        /\ \A i \in CallsOf("W212") : log.calls[i].severity = "warning"

\* C10 as stated: each rule is reported on its own: E408 exactly when R2 is
\* violated, also when R1 is violated, and an R3 error for every shared
\* version whose filename sets differ, also when R1 or R2 is violated.
C10_EachRuleOnItsOwn ==
    LineageDone =>
        /\ (LineageCalls("E407") # {}) <=> ~R1
        /\ (LineageCalls("E408") # {}) <=> ~R2
        /\ \A v \in SharedVersions :
              FilesOf(Prior.inventory, v) # FilesOf(Self.inventory, v)
              => ReportedFor("E409", v)

\* C10: the rules are checked in a chain: E407 is reported exactly when R1
\* is violated, E408 exactly when R1 holds and R2 is violated, and the R3
\* errors E409 and E410 only when R1 and R2 both hold; a call reports at
\* most one of E407 and E408, and neither together with an R3 error.
C10_RulesInChain ==
    LineageDone =>
        /\ (LineageCalls("E407") # {}) <=> ~R1
        /\ (LineageCalls("E408") # {}) <=> (R1 /\ ~R2)
        /\ (LineageCalls("E409") \cup LineageCalls("E410") # {}) => (R1 /\ R2)
        /\ Cardinality(LineageCalls("E407") \cup LineageCalls("E408")) <= 1

\* R1 and R2 are both violated, and a shared version differs in its
\* filenames: E407 alone is reported
C10_Witness ==
    /\ LineageDone /\ ~R1 /\ ~R2
    /\ \E v \in SharedVersions :
          FilesOf(Prior.inventory, v) # FilesOf(Self.inventory, v)
    /\ LineageCalls("E407") # {}
    /\ LineageCalls("E408") = {}
    /\ LineageCalls("E409") = {}

====
